---- MODULE Spec2Model ----
(***************************************************************************)
(* dominant_colours: one invocation of the command-line program (fn main   *)
(* of src/main.rs), followed by further invocations with the same command  *)
(* line on the same file (SpecRepeated).                                     *)
(*                                                                           *)
(* The modules cli, get_bytes and terminal_colours are declared in main.rs  *)
(* (mod cli; mod get_bytes; mod terminal_colours;) but their files are not  *)
(* part of the sources at hand; what they do is taken from the              *)
(* specification and from the tests of main.rs.  kmeans_colors, palette and *)
(* rand are external crates: the clustering is a black box that answers     *)
(* with at most K centroids and that is a function of (samples, K, seed).   *)
(***************************************************************************)
EXTENDS Integers, Sequences, FiniteSets, TLC

(***************************************************************************)
(* Bounds of the model.                                                     *)
(***************************************************************************)
MaxRequested == 17      \* the largest colour count given on the command line
MaxSeed == 1            \* seeds are 0 .. MaxSeed

(***************************************************************************)
(* Constants of the program.                                                *)
(***************************************************************************)
TerminalCount == 16     \* main.rs:40, the floor of colour_count in terminal mode
max_iterations == 20    \* main.rs:58
converge == 1           \* main.rs:59 (1.0)
verbose == FALSE        \* main.rs:60
ExitOk == 0
ExitRuntime == 1        \* tests, main.rs:303
ExitUsage == 2          \* tests, main.rs:279

(***************************************************************************)
(* Characters and strings.  A string is a sequence of one-character        *)
(* strings, so that formatting and parsing are computed, not assumed.      *)
(***************************************************************************)
ESC == "ESC"            \* the byte 0x1B
BLOCK == "BLOCK"        \* U+2587, the block element of main.rs:85

Digits == <<"0", "1", "2", "3", "4", "5", "6", "7", "8", "9">>
HexDigits == <<"0", "1", "2", "3", "4", "5", "6", "7", "8", "9", "a", "b", "c", "d", "e", "f">>

\* {} with no flags: the decimal text of a natural number.
RECURSIVE Dec(_)
Dec(n) == IF n < 10 THEN <<Digits[n + 1]>> ELSE Dec(n \div 10) \o <<Digits[(n % 10) + 1]>>

\* {:02x}: two lowercase hexadecimal digits of a u8.
Hex02Upper(n) == LET U == <<"0", "1", "2", "3", "4", "5", "6", "7", "8", "9", "A", "B", "C", "D", "E", "F">>
                 IN  <<U[(n \div 16) + 1], U[(n % 16) + 1]>>
Hex02(n) == <<HexDigits[(n \div 16) + 1], HexDigits[(n % 16) + 1]>>

\* char::to_lowercase on the characters paths are made of here.
LowerChar(c) == CASE c = "A" -> "a" [] c = "G" -> "g" [] c = "I" -> "i" [] c = "F" -> "f"
                  [] c = "P" -> "p" [] c = "N" -> "n" [] OTHER -> c

\* str::to_lowercase
to_lowercase(s) == [i \in 1..Len(s) |-> LowerChar(s[i])]

\* str::ends_with
ends_with(s, suffix) ==
    /\ Len(s) >= Len(suffix)
    /\ SubSeq(s, Len(s) - Len(suffix) + 1, Len(s)) = suffix

DotGif == <<".", "g", "i", "f">>

\* main.rs:44, the condition that picks get_bytes_for_gif.
IsGifNoLowercase(path) == ends_with(path, DotGif)
IsGif(path) == ends_with(to_lowercase(path), DotGif)

(***************************************************************************)
(* Colours.                                                                 *)
(***************************************************************************)
RGB(r, g, b) == [red |-> r, green |-> g, blue |-> b]

\* Srgba<u8> -> Lab: the perceptual coordinate is kept as a fixed-point
\* value with one fractional bit per axis; alpha is dropped.
into_color(px) == [l |-> 2 * px.red, a |-> 2 * px.green, b |-> 2 * px.blue]

\* f32 -> u8 of into_format: round to nearest, clamp to 0..255.
RoundClamp(v) == LET r == (v + 1) \div 2 IN IF r > 255 THEN 255 ELSE IF r < 0 THEN 0 ELSE r

\* Lab -> Srgb<u8>
from_color(x) == RGB(RoundClamp(x.l), RoundClamp(x.a), RoundClamp(x.b))

\* Srgba::from_raw_slice: four bytes a pixel.
from_raw_slice(bytes) ==
    [i \in 1..(Len(bytes) \div 4) |->
        [red |-> bytes[4 * i - 3], green |-> bytes[4 * i - 2],
         blue |-> bytes[4 * i - 1], alpha |-> bytes[4 * i]]]

(***************************************************************************)
(* Files.  A file is what the path names on disk: nothing, something that  *)
(* is no image, an image in a format that is not supported, an image with  *)
(* broken data, or an image with its frames of RGBA pixels.                 *)
(***************************************************************************)
Px(r, g, b) == [red |-> r, green |-> g, blue |-> b, alpha |-> 255]

\* Two frames, a red one and a blue one (animated_squares.gif, main.rs:202).
Squares == << <<Px(255, 0, 0)>>, <<Px(0, 0, 255)>> >>

\* One frame with two reds one step apart.
Near == << <<Px(254, 0, 0), Px(255, 0, 0)>> >>

\* One frame with the sixteen terminal colours, each slightly off
\* (terminal_colours.png, main.rs:243), brightest first, and one more grey.
Swatches ==
    << << Px(254, 254, 254), Px(0, 254, 254), Px(254, 0, 254), Px(0, 0, 254),
          Px(254, 254, 0), Px(0, 254, 0), Px(254, 0, 0), Px(86, 86, 86),
          Px(171, 171, 171), Px(0, 171, 171), Px(171, 0, 171), Px(0, 0, 171),
          Px(128, 127, 0), Px(0, 171, 0), Px(171, 0, 0), Px(0, 0, 1),
          Px(200, 200, 200) >> >>

Files ==
    {[kind |-> k, frames |-> <<>>] : k \in {"missing", "not_image", "unsupported", "malformed"}}
    \cup {[kind |-> "image", frames |-> f] : f \in {Squares, Near, Swatches}}

RECURSIVE Bytes(_)
Bytes(pixels) ==
    IF pixels = <<>> THEN <<>>
    ELSE <<Head(pixels).red, Head(pixels).green, Head(pixels).blue, Head(pixels).alpha>>
         \o Bytes(Tail(pixels))

RECURSIVE Concat(_)
Concat(seqs) == IF seqs = <<>> THEN <<>> ELSE Head(seqs) \o Concat(Tail(seqs))

\* get_bytes::get_bytes_for_image: every pixel of the decoded image.
get_bytes_for_image(file) == Bytes(Head(file.frames))

\* get_bytes::get_bytes_for_gif: every pixel of every sampled frame; the
\* animations here are short enough for every frame to be sampled.
get_bytes_for_gif(file) == Bytes(Concat(file.frames))

(***************************************************************************)
(* The clustering collaborator, kmeans_colors::get_kmeans_hamerly.  Its    *)
(* answer is a function of (k, points, seed) that main.rs does not control:*)
(* at most k centroids, at most one per distinct point, each a point or    *)
(* the mean of two points.  Which function it is, is one of a family: it   *)
(* answers with as many centroids as it can or with one only; its last     *)
(* centroid is a point or a mean; the distinct point it starts from        *)
(* depends on the seed.                                                      *)
(***************************************************************************)
RECURSIVE Distinct(_)
Distinct(s) ==
    IF s = <<>> THEN <<>>
    ELSE LET d == Distinct(SubSeq(s, 1, Len(s) - 1))
             x == s[Len(s)]
         IN  IF \E i \in 1..Len(d) : d[i] = x THEN d ELSE Append(d, x)

Min(a, b) == IF a < b THEN a ELSE b
Max(a, b) == IF a > b THEN a ELSE b

Mean(p, q) == [l |-> (p.l + q.l) \div 2, a |-> (p.a + q.a) \div 2, b |-> (p.b + q.b) \div 2]

Collaborators ==
    { [centroids |-> "all", blend |-> FALSE], [centroids |-> "all", blend |-> TRUE],
      [centroids |-> "one", blend |-> FALSE] }

Clusters(how, k, max_iter, conv, verb, points, rng_seed) ==
    LET d == Distinct(points)
        m == Min(k, Len(d))
        n == IF how.centroids = "all" THEN m ELSE 1
        at(i) == d[((i - 1 + rng_seed) % Len(d)) + 1]
    IN  [i \in 1..n |-> IF how.blend /\ i = n /\ i > 1 THEN Mean(at(i), at(i - 1)) ELSE at(i)]

(***************************************************************************)
(* terminal_colours::create_terminal_colour: every colour is replaced by   *)
(* the nearest of the sixteen reference colours, and the result is put in  *)
(* the order of the table.                                                   *)
(***************************************************************************)
TerminalColours ==
    << RGB(0, 0, 0), RGB(170, 0, 0), RGB(0, 170, 0), RGB(128, 128, 0),
       RGB(0, 0, 170), RGB(170, 0, 170), RGB(0, 170, 170), RGB(170, 170, 170),
       RGB(85, 85, 85), RGB(255, 0, 0), RGB(0, 255, 0), RGB(255, 255, 0),
       RGB(0, 0, 255), RGB(255, 0, 255), RGB(0, 255, 255), RGB(255, 255, 255) >>

Sq(x) == x * x
Distance(c, t) == Sq(c.red - t.red) + Sq(c.green - t.green) + Sq(c.blue - t.blue)

\* The position (1..16) of the nearest reference colour; of two equally
\* near ones the first wins, or the last with max_brightness (the bright
\* half of the table is its second half).
Nearest(c, max_brightness) ==
    LET best == {p \in 1..Len(TerminalColours) :
                    \A q \in 1..Len(TerminalColours) :
                        Distance(c, TerminalColours[p]) <= Distance(c, TerminalColours[q])}
    IN  IF max_brightness
        THEN CHOOSE p \in best : \A q \in best : q <= p
        ELSE CHOOSE p \in best : \A q \in best : p <= q

\* The reference colours at position p and after, each as often as it was hit.
RECURSIVE InTableOrder(_, _)
InTableOrder(hits, p) ==
    IF p > Len(TerminalColours) THEN <<>>
    ELSE [i \in 1..Cardinality({j \in 1..Len(hits) : hits[j] = p}) |-> TerminalColours[p]]
         \o InTableOrder(hits, p + 1)

create_terminal_colour(colours, max_brightness) ==
    InTableOrder([i \in 1..Len(colours) |-> Nearest(colours[i], max_brightness)], 1)

(***************************************************************************)
(* The command line.                                                        *)
(***************************************************************************)
Paths ==
    { <<"a", ".", "p", "n", "g">>, <<"a", ".", "g", "i", "f">>, <<"A", ".", "G", "i", "F">>,
      <<"a", ".", "g", "i", "f", ".", "p", "n", "g">> }

NaN == <<"N", "a", "N">>
Requested == {1, TerminalCount, MaxRequested}
Seeds == 0..MaxSeed

CommandLines ==
    [path : Paths,
     max_colours : {NaN} \cup {Dec(n) : n \in Requested},
     seed : {NaN} \cup {Dec(n) : n \in Seeds},
     terminal_colours : BOOLEAN, random_seed : BOOLEAN,
     max_brightness : BOOLEAN, no_palette : BOOLEAN]

\* str::parse of an unsigned integer: the value, or -1 for "invalid digit
\* found in string".
DigitValue(c) == IF \E d \in 1..10 : Digits[d] = c THEN (CHOOSE d \in 1..10 : Digits[d] = c) - 1 ELSE -1

RECURSIVE parse(_)
parse(s) ==
    IF s = <<>> THEN -1
    ELSE LET last == DigitValue(s[Len(s)])
             init == SubSeq(s, 1, Len(s) - 1)
         IN  IF last < 0 THEN -1
             ELSE IF init = <<>> THEN last
             ELSE IF parse(init) < 0 THEN -1
             ELSE 10 * parse(init) + last

(***************************************************************************)
(* The state of the program.                                                *)
(***************************************************************************)
VARIABLES
    args,           \* the command line of every invocation
    file,           \* what args.path names on disk
    pc,             \* the statement of main to execute next
    matches,        \* the parsed command line (main.rs:15)
    seed,           \* main.rs:30
    colour_count,   \* main.rs:36 and 40
    img_bytes,      \* main.rs:44
    lab,            \* main.rs:53
    result,         \* main.rs:62
    srgb_colors,    \* main.rs:64
    rgb,            \* main.rs:69
    stdout,         \* the lines printed so far
    stderr,         \* the error reported, "" for none
    exit_code,      \* the exit status, -1 while the program runs
    phases,         \* the steps of main executed so far, in order
    sampled,        \* the get_bytes functions called so far, in order
    kmeans_args,    \* the arguments of the calls of get_kmeans_hamerly so far
    collaborator,   \* the function the clustering crate computes
    previous        \* stdout and exit status of the invocation before this one

vars == <<args, file, pc, matches, seed, colour_count, img_bytes, lab, result,
          srgb_colors, rgb, stdout, stderr, exit_code, phases, sampled, kmeans_args,
          collaborator, previous>>

NoMatches == [parsed |-> FALSE]

Fresh ==
    /\ pc = "start"
    /\ matches = NoMatches
    /\ seed = -1
    /\ colour_count = -1
    /\ img_bytes = <<>>
    /\ lab = <<>>
    /\ result = <<>>
    /\ srgb_colors = <<>>
    /\ rgb = <<>>
    /\ stdout = <<>>
    /\ stderr = ""
    /\ exit_code = -1
    /\ phases = <<>>
    /\ sampled = <<>>
    /\ kmeans_args = <<>>

Init ==
    /\ args \in CommandLines
    /\ file \in Files
    /\ collaborator \in Collaborators
    /\ previous = [ran |-> FALSE, stdout |-> <<>>, exit_code |-> -1]
    /\ Fresh

\* std::process::exit
Exit(code, message) ==
    /\ pc' = "done"
    /\ exit_code' = code
    /\ stderr' = message

Step(name, next) ==
    /\ phases' = Append(phases, name)
    /\ pc' = next

\* main.rs:15-28: cli::app().get_matches() and the reading of the flags.  A
\* value that is no integer ends the program here.
GetMatchesLenient ==
    /\ pc = "start"
    /\ matches' = [parsed |-> TRUE, path |-> args.path,
                   terminal_colours |-> args.terminal_colours,
                   random_seed |-> args.random_seed,
                   max_brightness |-> args.max_brightness,
                   no_palette |-> args.no_palette,
                   SEED |-> parse(args.seed), MAX_COLOURS |-> parse(args.max_colours)]
    /\ Step("arguments", "seed")
    /\ UNCHANGED <<args, file, seed, colour_count, img_bytes, lab, result, srgb_colors,
                   rgb, stdout, stderr, exit_code, sampled, kmeans_args, collaborator, previous>>

GetMatches ==
    /\ pc = "start"
    /\ phases' = Append(phases, "arguments")
    /\ IF parse(args.max_colours) < 0 \/ parse(args.seed) < 0
       THEN /\ Exit(ExitUsage, "invalid value")
            /\ UNCHANGED matches
       ELSE /\ pc' = "seed"
            /\ matches' = [parsed |-> TRUE, path |-> args.path,
                           terminal_colours |-> args.terminal_colours,
                           random_seed |-> args.random_seed,
                           max_brightness |-> args.max_brightness,
                           no_palette |-> args.no_palette,
                           SEED |-> parse(args.seed), MAX_COLOURS |-> parse(args.max_colours)]
            /\ UNCHANGED <<exit_code, stderr>>
    /\ UNCHANGED <<args, file, seed, colour_count, img_bytes, lab, result, srgb_colors,
                   rgb, stdout, sampled, kmeans_args, collaborator, previous>>

\* main.rs:30-34
ChooseSeedAlwaysRandom ==
    /\ pc = "seed"
    /\ \E r \in Seeds : seed' = r
    /\ pc' = "count"
    /\ UNCHANGED <<args, file, matches, colour_count, img_bytes, lab, result,
                   srgb_colors, rgb, stdout, stderr, exit_code, phases, sampled,
                   kmeans_args, collaborator, previous>>

ChooseSeed ==
    /\ pc = "seed"
    /\ IF matches.random_seed
       THEN \E r \in Seeds : seed' = r
       ELSE seed' = matches.SEED
    /\ pc' = "count"
    /\ UNCHANGED <<args, file, matches, colour_count, img_bytes, lab, result,
                   srgb_colors, rgb, stdout, stderr, exit_code, phases, sampled,
                   kmeans_args, collaborator, previous>>

\* main.rs:36-40
EffectiveCountAlwaysFloor(terminal_colours, count) == IF TerminalCount > count THEN TerminalCount ELSE count
EffectiveCount(terminal_colours, count) ==
    IF terminal_colours /\ TerminalCount > count THEN TerminalCount ELSE count

ColourCount ==
    /\ pc = "count"
    /\ colour_count' = EffectiveCount(matches.terminal_colours, matches.MAX_COLOURS)
    /\ pc' = "bytes"
    /\ UNCHANGED <<args, file, matches, seed, img_bytes, lab, result,
                   srgb_colors, rgb, stdout, stderr, exit_code, phases, sampled,
                   kmeans_args, collaborator, previous>>

\* What image::open and the GIF decoder report for a file that gives no
\* pixels; both get_bytes functions print it and exit.
Failure(kind) ==
    CASE kind = "missing" -> "No such file or directory"
      [] kind = "not_image" -> "not recognized as an image format"
      [] kind = "unsupported" -> "image format is not supported"
      [] kind = "malformed" -> "Format error decoding"

\* main.rs:44-48
GetBytesCarryOn ==
    /\ pc = "bytes"
    /\ sampled' = Append(sampled, IF IsGif(matches.path) THEN "gif" ELSE "image")
    /\ img_bytes' = IF file.kind = "image"
                    THEN IF IsGif(matches.path) THEN get_bytes_for_gif(file)
                                                ELSE get_bytes_for_image(file)
                    ELSE Bytes(<<Px(0, 0, 0)>>)
    /\ Step("sample", "lab")
    /\ UNCHANGED <<args, file, matches, seed, colour_count, lab, result, srgb_colors,
                   rgb, stdout, stderr, exit_code, kmeans_args, collaborator, previous>>

GetBytes ==
    /\ pc = "bytes"
    /\ phases' = Append(phases, "sample")
    /\ sampled' = Append(sampled, IF IsGif(matches.path) THEN "gif" ELSE "image")
    /\ IF file.kind = "image"
       THEN /\ img_bytes' = IF IsGif(matches.path) THEN get_bytes_for_gif(file)
                                                   ELSE get_bytes_for_image(file)
            /\ pc' = "lab"
            /\ UNCHANGED <<exit_code, stderr>>
       ELSE /\ Exit(ExitRuntime, Failure(file.kind))
            /\ UNCHANGED img_bytes
    /\ UNCHANGED <<args, file, matches, seed, colour_count, lab, result, srgb_colors,
                   rgb, stdout, kmeans_args, collaborator, previous>>

\* main.rs:53-56
ToLab ==
    /\ pc = "lab"
    /\ lab' = LET px == from_raw_slice(img_bytes) IN [i \in 1..Len(px) |-> into_color(px[i])]
    /\ Step("to perceptual", "kmeans")
    /\ UNCHANGED <<args, file, matches, seed, colour_count, img_bytes, result,
                   srgb_colors, rgb, stdout, stderr, exit_code, sampled, kmeans_args,
                   collaborator, previous>>

get_kmeans_hamerly(k, max_iter, conv, verb, points, rng_seed) ==
    Clusters(collaborator, k, max_iter, conv, verb, points, rng_seed)

\* main.rs:58-62
KMeans ==
    /\ pc = "kmeans"
    /\ kmeans_args' = Append(kmeans_args,
            [k |-> colour_count, max_iterations |-> max_iterations, converge |-> converge,
             verbose |-> verbose, seed |-> seed])
    /\ result' = get_kmeans_hamerly(colour_count, max_iterations, converge, verbose, lab, seed)
    /\ Step("cluster", "srgb")
    /\ UNCHANGED <<args, file, matches, seed, colour_count, img_bytes, lab,
                   srgb_colors, rgb, stdout, stderr, exit_code, sampled, collaborator, previous>>

\* main.rs:64-67
ToSrgbPrinting ==
    /\ pc = "srgb"
    /\ srgb_colors' = [i \in 1..Len(result) |-> from_color(result[i])]
    /\ stdout' = Append(stdout, <<"#">> \o Hex02(from_color(result[1]).red)
                                    \o Hex02(from_color(result[1]).green)
                                    \o Hex02(from_color(result[1]).blue))
    /\ Step("to display", "snap")
    /\ UNCHANGED <<args, file, matches, seed, colour_count, img_bytes, lab, result,
                   rgb, stderr, exit_code, sampled, kmeans_args, collaborator, previous>>

ToSrgb ==
    /\ pc = "srgb"
    /\ srgb_colors' = [i \in 1..Len(result) |-> from_color(result[i])]
    /\ Step("to display", "snap")
    /\ UNCHANGED <<args, file, matches, seed, colour_count, img_bytes, lab, result,
                   rgb, stdout, stderr, exit_code, sampled, kmeans_args, collaborator, previous>>

\* main.rs:69-73
SnapNever ==
    /\ pc = "snap"
    /\ rgb' = srgb_colors
    /\ phases' = IF matches.terminal_colours THEN Append(phases, "snap") ELSE phases
    /\ pc' = "render"
    /\ UNCHANGED <<args, file, matches, seed, colour_count, img_bytes, lab, result,
                   srgb_colors, stdout, stderr, exit_code, sampled, kmeans_args, collaborator,
                   previous>>

Snap ==
    /\ pc = "snap"
    /\ IF matches.terminal_colours
       THEN /\ rgb' = create_terminal_colour(srgb_colors, matches.max_brightness)
            /\ phases' = Append(phases, "snap")
       ELSE /\ rgb' = srgb_colors
            /\ UNCHANGED phases
    /\ pc' = "render"
    /\ UNCHANGED <<args, file, matches, seed, colour_count, img_bytes, lab, result,
                   srgb_colors, stdout, stderr, exit_code, sampled, kmeans_args, collaborator,
                   previous>>

\* main.rs:79
display_value(c) == <<"#">> \o Hex02(c.red) \o Hex02(c.green) \o Hex02(c.blue)

\* main.rs:81-88
SwatchLineSwapped(c) ==
    <<ESC, "[", "3", "8", ";", "2", ";">> \o Dec(c.blue) \o <<";">> \o Dec(c.green)
        \o <<";">> \o Dec(c.red) \o <<"m", BLOCK, " ">> \o display_value(c)
        \o <<ESC, "[", "0", "m">>
SwatchLine(c) ==
    <<ESC, "[", "3", "8", ";", "2", ";">> \o Dec(c.red) \o <<";">> \o Dec(c.green)
        \o <<";">> \o Dec(c.blue) \o <<"m", BLOCK, " ">> \o display_value(c)
        \o <<ESC, "[", "0", "m">>

\* main.rs:78-89, one turn of the loop
PrintLine ==
    /\ pc = "render"
    /\ Len(stdout) < Len(rgb)
    /\ LET c == rgb[Len(stdout) + 1]
       IN  stdout' = Append(stdout, IF matches.no_palette THEN display_value(c) ELSE SwatchLine(c))
    /\ phases' = IF stdout = <<>> THEN Append(phases, "render") ELSE phases
    /\ UNCHANGED <<args, file, pc, matches, seed, colour_count, img_bytes, lab, result,
                   srgb_colors, rgb, stderr, exit_code, sampled, kmeans_args, collaborator,
                   previous>>

\* main.rs:90, the end of main
Return ==
    /\ pc = "render"
    /\ Len(stdout) = Len(rgb)
    /\ pc' = "done"
    /\ exit_code' = ExitOk
    /\ UNCHANGED <<args, file, matches, seed, colour_count, img_bytes, lab, result,
                   srgb_colors, rgb, stdout, stderr, phases, sampled, kmeans_args, collaborator,
                   previous>>

\* The program is started again with the same command line (get_success is
\* called twice with the same arguments at main.rs:190-191).
Again ==
    /\ pc = "done"
    /\ previous' = [ran |-> TRUE, stdout |-> stdout, exit_code |-> exit_code]
    /\ pc' = "start"
    /\ matches' = NoMatches
    /\ seed' = -1
    /\ colour_count' = -1
    /\ img_bytes' = <<>>
    /\ lab' = <<>>
    /\ result' = <<>>
    /\ srgb_colors' = <<>>
    /\ rgb' = <<>>
    /\ stdout' = <<>>
    /\ stderr' = ""
    /\ exit_code' = -1
    /\ phases' = <<>>
    /\ sampled' = <<>>
    /\ kmeans_args' = <<>>
    /\ UNCHANGED <<args, file, collaborator>>

Next ==
    \/ GetMatches
    \/ ChooseSeed
    \/ ColourCount
    \/ GetBytes
    \/ ToLab
    \/ KMeans
    \/ ToSrgb
    \/ Snap
    \/ PrintLine
    \/ Return

Spec == Init /\ [][Next]_vars

\* Any number of invocations, one after the other.
NextRepeated ==
    \/ Next
    \/ Again

SpecRepeated == Init /\ [][NextRepeated]_vars

(***************************************************************************)
(* Reading the output back.                                                 *)
(***************************************************************************)
\* The value of a lowercase hexadecimal digit, -1 for any other character.
HexValue(c) == IF \E d \in 1..16 : HexDigits[d] = c THEN (CHOOSE d \in 1..16 : HexDigits[d] = c) - 1 ELSE -1

IsSwatchLine(line) == Len(line) > 11 /\ line[1] = ESC

\* The '#rrggbb' part of a line of either mode.
LineHex(line) == IF IsSwatchLine(line) THEN SubSeq(line, Len(line) - 10, Len(line) - 4) ELSE line

\* The colour a '#rrggbb' string stands for.
Decode(hex) == RGB(16 * HexValue(hex[2]) + HexValue(hex[3]),
                   16 * HexValue(hex[4]) + HexValue(hex[5]),
                   16 * HexValue(hex[6]) + HexValue(hex[7]))

WellFormedHex(hex) ==
    /\ Len(hex) = 7
    /\ hex[1] = "#"
    /\ \A i \in 2..7 : HexValue(hex[i]) >= 0

\* The table position (1..16) of a reference colour, 0 for any other colour.
Position(c) == IF \E p \in 1..Len(TerminalColours) : TerminalColours[p] = c
               THEN CHOOSE p \in 1..Len(TerminalColours) : TerminalColours[p] = c
               ELSE 0

IsNumber(text) == text # NaN
Succeeded == pc = "done" /\ exit_code = ExitOk
RequestedCount == parse(args.max_colours)

(***************************************************************************)
(* C1.  No two lines of the output of one run carry the same hex string:   *)
(* of two colours of the final sequence that format to the same '#rrggbb', *)
(* only the first is printed.  The loop of main.rs:78-89 prints every      *)
(* colour it is given, so this does not hold.                               *)
(***************************************************************************)
C1_NoDuplicateHexLines ==
    \A i, j \in 1..Len(stdout) : i # j => LineHex(stdout[i]) # LineHex(stdout[j])

(***************************************************************************)
(* C2.  A successful run in terminal-palette mode prints at most 16 lines, *)
(* each with the hex string of one of the 16 reference colours.  With more *)
(* than 16 centroids the loop of main.rs:78-89 prints more than 16 lines.  *)
(***************************************************************************)
C2_AtMostSixteenReferenceLines ==
    (args.terminal_colours /\ Succeeded) =>
        /\ Len(stdout) <= TerminalCount
        /\ \A i \in 1..Len(stdout) : Position(Decode(LineHex(stdout[i]))) > 0

(***************************************************************************)
(* C3, as claimed.  A successful run in terminal-palette mode with a       *)
(* requested count below 16 prints exactly the 16 reference colours, in    *)
(* the order of the table.                                                   *)
(***************************************************************************)
C3_ExactlySixteenLines ==
    (args.terminal_colours /\ Succeeded /\ RequestedCount < TerminalCount) =>
        /\ Len(stdout) = TerminalCount
        /\ \A i \in 1..Len(stdout) : Position(Decode(LineHex(stdout[i]))) = i

(***************************************************************************)
(* C3, amended.  A successful run in terminal-palette mode with a          *)
(* requested count below 16 prints at most 16 lines, one per centroid,     *)
(* each a reference colour, in the order of the table whatever the order   *)
(* of the centroids; when the centroids hit all 16 reference colours the   *)
(* output is the table itself, from #000000 to #ffffff.                     *)
(***************************************************************************)
C3_TableOrder ==
    (args.terminal_colours /\ Succeeded /\ RequestedCount < TerminalCount) =>
        /\ Len(stdout) = Len(result)
        /\ Len(stdout) <= TerminalCount
        /\ \A i \in 1..Len(stdout) : Position(Decode(LineHex(stdout[i]))) > 0
        /\ \A i, j \in 1..Len(stdout) :
            i < j => Position(Decode(LineHex(stdout[i]))) <= Position(Decode(LineHex(stdout[j])))
        /\ (\A p \in 1..TerminalCount :
                \E i \in 1..Len(stdout) : Position(Decode(LineHex(stdout[i]))) = p)
            => /\ Len(stdout) = TerminalCount
               /\ \A i \in 1..Len(stdout) : Position(Decode(LineHex(stdout[i]))) = i

\* The sixteen reference colours are printed in table order although the
\* clustering gave them brightest first.
C3_Witness ==
    /\ args.terminal_colours /\ Succeeded /\ RequestedCount < TerminalCount
    /\ Len(stdout) = TerminalCount
    /\ LineHex(stdout[1]) = <<"#", "0", "0", "0", "0", "0", "0">>
    /\ LineHex(stdout[16]) = <<"#", "f", "f", "f", "f", "f", "f">>
    /\ srgb_colors[1] = RGB(254, 254, 254)

(***************************************************************************)
(* C4.  The cluster count given to get_kmeans_hamerly is the larger of the *)
(* requested count and 16 in terminal-palette mode, and the requested      *)
(* count itself otherwise.                                                   *)
(***************************************************************************)
C4_ClusterCount ==
    \A i \in 1..Len(kmeans_args) :
        /\ RequestedCount >= 1
        /\ kmeans_args[i].k = IF args.terminal_colours
                              THEN Max(RequestedCount, TerminalCount)
                              ELSE RequestedCount

\* One colour was asked for in terminal-palette mode and 16 clusters were made.
C4_Witness ==
    /\ Len(kmeans_args) = 1
    /\ args.terminal_colours
    /\ args.max_colours = <<"1">>
    /\ kmeans_args[1].k = 16

(***************************************************************************)
(* C5.  When the file gives no pixels (it does not exist, is no image, is  *)
(* in an unsupported format or is malformed), whichever of the two         *)
(* get_bytes functions was called, the run ends there: exit status 1 (not  *)
(* 2), nothing on standard output, no clustering, no later step.            *)
(***************************************************************************)
C5_SamplingFailureIsFatal ==
    (sampled # <<>> /\ file.kind # "image") =>
        /\ pc = "done"
        /\ exit_code = 1
        /\ exit_code # ExitUsage
        /\ stderr # ""
        /\ stdout = <<>>
        /\ kmeans_args = <<>>
        /\ lab = <<>> /\ result = <<>> /\ rgb = <<>>
        /\ phases[Len(phases)] = "sample"

\* A malformed file read by get_bytes_for_gif has ended the run.
C5_Witness ==
    /\ file.kind = "malformed"
    /\ sampled = <<"gif">>
    /\ pc = "done"
    /\ exit_code = 1
    /\ stdout = <<>>

(***************************************************************************)
(* C6.  With a colour count or a seed that is no integer, the run ends in  *)
(* the parsing of the command line with exit status 2: no get_bytes        *)
(* function is called, nothing is clustered, nothing is printed.            *)
(***************************************************************************)
C6_ArgumentErrorComesFirst ==
    /\ (~IsNumber(args.max_colours) \/ ~IsNumber(args.seed)) =>
            /\ pc \in {"start", "done"}
            /\ pc = "done" => exit_code = 2
            /\ sampled = <<>> /\ img_bytes = <<>>
            /\ kmeans_args = <<>> /\ result = <<>>
            /\ stdout = <<>>
    /\ exit_code = 2 => (sampled = <<>> /\ kmeans_args = <<>> /\ stdout = <<>>)

\* --seed=NaN with a valid colour count has ended the run with status 2.
C6_Witness ==
    /\ args.seed = NaN
    /\ IsNumber(args.max_colours)
    /\ pc = "done"
    /\ exit_code = 2
    /\ sampled = <<>>
    /\ stderr = "invalid value"

(***************************************************************************)
(* C7.  Without --random-seed the seed given to get_kmeans_hamerly is the  *)
(* one on the command line, and a run with the same command line on the    *)
(* same file ends with the same output and exit status as the run before.  *)
(***************************************************************************)
C7_SeedVerbatimAndReproducible ==
    ~args.random_seed =>
        /\ \A i \in 1..Len(kmeans_args) : Dec(kmeans_args[i].seed) = args.seed
        /\ (previous.ran /\ pc = "done") =>
                /\ stdout = previous.stdout
                /\ exit_code = previous.exit_code

\* A second run with the seed on the command line has printed the same
\* two or more lines as the first.
C7_Witness ==
    /\ ~args.random_seed
    /\ previous.ran
    /\ Succeeded
    /\ Len(stdout) >= 2
    /\ stdout = previous.stdout
    /\ Dec(kmeans_args[1].seed) = args.seed

(***************************************************************************)
(* C8.  Every printed line carries its colour as '#' and six lowercase     *)
(* hexadecimal digits.  With --no-palette the line is that string alone,   *)
(* with no escape sequence; otherwise it is the foreground-colour escape   *)
(* sequence with the red, green and blue of that very hex string, the      *)
(* block, a space, the hex string, and the reset sequence.                  *)
(***************************************************************************)
C8_LineFormat ==
    \A i \in 1..Len(stdout) :
        LET line == stdout[i]
            hex == LineHex(line)
            c == Decode(hex)
        IN  /\ WellFormedHex(hex)
            /\ c = rgb[i]
            /\ IF args.no_palette
               THEN /\ line = hex
                    /\ \A k \in 1..Len(line) : line[k] # ESC
               ELSE line = <<ESC, "[", "3", "8", ";", "2", ";">> \o Dec(c.red) \o <<";">>
                            \o Dec(c.green) \o <<";">> \o Dec(c.blue)
                            \o <<"m", BLOCK, " ">> \o hex \o <<ESC, "[", "0", "m">>

\* The swatch line of the colour (171, 0, 0) has been printed.
C8_Witness ==
    /\ ~args.no_palette
    /\ \E i \in 1..Len(stdout) :
        /\ rgb[i] = RGB(171, 0, 0)
        /\ stdout[i] = <<ESC, "[", "3", "8", ";", "2", ";", "1", "7", "1", ";", "0", ";", "0",
                         "m", BLOCK, " ", "#", "a", "b", "0", "0", "0", "0", ESC, "[", "0", "m">>

(***************************************************************************)
(* C9.  The steps of a run happen one after the other in the order         *)
(* arguments, sampling, conversion to the perceptual space, clustering,    *)
(* conversion back, snapping (terminal-palette mode only), rendering.  The *)
(* first line is printed when the whole list of colours has been clustered,*)
(* converted and snapped, and a run that fails has printed nothing.         *)
(***************************************************************************)
Pipeline ==
    <<"arguments", "sample", "to perceptual", "cluster", "to display">>
        \o (IF args.terminal_colours THEN <<"snap">> ELSE <<>>) \o <<"render">>

C9_PhasesInOrder ==
    /\ Len(phases) <= Len(Pipeline)
    /\ phases = SubSeq(Pipeline, 1, Len(phases))
    /\ stdout # <<>> =>
            /\ pc \in {"render", "done"}
            /\ SubSeq(phases, 1, Len(phases) - 1) = SubSeq(Pipeline, 1, Len(Pipeline) - 1)
            /\ Len(kmeans_args) = 1
            /\ Len(srgb_colors) = Len(result)
            /\ Len(rgb) = Len(srgb_colors)
            /\ Len(stdout) <= Len(rgb)
            /\ args.terminal_colours => \A i \in 1..Len(rgb) : Position(rgb[i]) > 0
    /\ (pc = "done" /\ exit_code # ExitOk) => stdout = <<>>

\* The first of several lines has been printed in terminal-palette mode.
C9_Witness ==
    /\ args.terminal_colours
    /\ pc = "render"
    /\ Len(stdout) = 1
    /\ Len(rgb) > 1
    /\ phases = Pipeline

(***************************************************************************)
(* C10.  get_bytes_for_gif is called exactly when the last four characters *)
(* of the path are ".gif" in any mix of upper and lower case, and          *)
(* get_bytes_for_image otherwise; one of the two is called, once.           *)
(***************************************************************************)
C10_StrategyByExtension ==
    sampled # <<>> =>
        /\ Len(sampled) = 1
        /\ sampled[1] \in {"gif", "image"}
        /\ sampled[1] = "gif" <=>
            LET n == Len(args.path)
            IN  /\ n >= 4
                /\ args.path[n - 3] = "."
                /\ args.path[n - 2] \in {"g", "G"}
                /\ args.path[n - 1] \in {"i", "I"}
                /\ args.path[n] \in {"f", "F"}

\* A.GiF went through get_bytes_for_gif and gave both frames of the animation.
C10_Witness ==
    /\ args.path = <<"A", ".", "G", "i", "F">>
    /\ sampled = <<"gif">>
    /\ file.frames = Squares
    /\ Len(img_bytes) = 8

====
